---- MODULE Spec2Model ----
(***************************************************************************)
(* A model of src/lib/fetch-handler.js: the fetch-mock request pipeline.   *)
(*                                                                         *)
(* A response descriptor is a non-empty sequence of tags.  "F" is a        *)
(* function (typeof x === 'function') whose call returns the rest of the   *)
(* sequence, "D" is a deferred value (x.then is a function) that settles   *)
(* with the rest of the sequence, and the last tag is the literal at the   *)
(* bottom: "lit" (a response config such as 200), "throws" (an object with *)
(* a truthy throws property), "Response" (an instance of config.Response)  *)
(* or "throwsResponse" (such an instance given a truthy throws property).  *)
(* "S" is a function that also carries a truthy throws property, as a      *)
(* sinon spy does; called, it returns the rest of the sequence.            *)
(*                                                                         *)
(* JavaScript runs one job at a time.  fetchHandler is one action: it runs *)
(* to the first suspension point of generateResponse.  Every continuation  *)
(* that the job queue runs later (the resumption of an await, the          *)
(* reactions registered with then) and every event (abort) is an action of *)
(* its own; TLC explores all their interleavings.                          *)
(***************************************************************************)
EXTENDS Naturals, Sequences, FiniteSets

VARIABLES config, routes, _calls, _holdingPromises, reqs, aborted, history

vars == <<config, routes, _calls, _holdingPromises, reqs, aborted, history>>

(* Bounds of the model. *)
MaxCalls == 2
MaxRoutes == 3
MaxDepth == 3

Urls == {"/a", "/b"}
(* options.method; "" stands for an absent (falsy) method. *)
Methods == {"", "POST"}
(* AbortSignal objects a caller may pass as options.signal. *)
Signals == {"s1", "s2"}
NoSignal == "none"

Literals == {"lit", "throws", "Response", "throwsResponse"}

IsFunction(v) == Head(v) \in {"F", "S"}
(* Line 141, response.throws: truthy for an error marker, for a Response   *)
(* that was given a throws property and for a function carrying one.       *)
HasThrows(v) == Head(v) \in {"throws", "throwsResponse", "S"}
(* Line 147: Response.prototype.isPrototypeOf(response) *)
IsResponse(v) == Head(v) \in {"Response", "throwsResponse"}
IsThenable(v) == Head(v) = "D"

(* What this.realFetch / this.config.fetch is when reachable: a function   *)
(* returning a promise of a Response.                                      *)
NativeFetch == <<"F", "D", "Response">>

RECURSIVE Descriptors(_)
Descriptors(n) ==
    IF n = 0 THEN {<<l>> : l \in Literals}
    ELSE Descriptors(n - 1) \cup
         {<<t>> \o d : t \in {"F", "D", "S"}, d \in {x \in Descriptors(n - 1) : Len(x) = n}}

(* A matcher is a predicate over the request; per url it returns true      *)
(* ("T"), returns false ("F") or throws ("X").                             *)
Matchers == [Urls -> {"T", "F", "X"}]

(* The routes a scenario may register. *)
ra ==
    [identifier |-> "ra", matcher |-> [u \in Urls |-> IF u = "/a" THEN "T" ELSE "F"],
     response |-> <<"lit">>]
rany ==
    [identifier |-> "rany", matcher |-> [u \in Urls |-> "T"],
     response |-> <<"D", "F", "throws">>]
rboom ==
    [identifier |-> "rboom", matcher |-> [u \in Urls |-> IF u = "/b" THEN "X" ELSE "F"],
     response |-> <<"D", "Response">>]
RouteSet == {ra, rany, rboom}

RECURSIVE RouteLists(_)
RouteLists(n) ==
    IF n = 0 THEN {<<>>}
    ELSE RouteLists(n - 1) \cup
         {Append(l, r) : l \in {x \in RouteLists(n - 1) : Len(x) = n - 1}, r \in RouteSet}

Configs ==
    [fallbackToNetwork : {"false", "true", "always"},
     fallbackResponse : {<<>>, <<"lit">>},
     realFetch : BOOLEAN]

(* The normalized (url, options, request) triple of one call. *)
Requests ==
    [url : Urls, method : Methods, signal : {NoSignal} \cup Signals, request : BOOLEAN]

(* ---- FetchMock.push ---------------------------------------------------- *)
CallRecord(req, identifier, isUnmatched) ==
    [url |-> req.url, method |-> req.method, request |-> req.request,
     identifier |-> identifier, isUnmatched |-> isUnmatched]

(* push as it would be were the record put in front of the log. *)
pushFront(calls, rec) == <<rec>> \o calls

push(calls, rec) == Append(calls, rec)

(* ---- FetchMock.router --------------------------------------------------- *)
(* Array.prototype.find: the matchers are called in index order until one  *)
(* returns true; a matcher that throws ends the scan with its error.       *)
(* find as it would be were a throwing matcher taken for a refusal. *)
RECURSIVE findSwallow(_, _, _)
findSwallow(rs, req, i) ==
    IF i > Len(rs) THEN [kind |-> "none", index |-> 0]
    ELSE IF rs[i].matcher[req.url] = "T" THEN [kind |-> "match", index |-> i]
    ELSE findSwallow(rs, req, i + 1)

RECURSIVE find(_, _, _)
find(rs, req, i) ==
    IF i > Len(rs) THEN [kind |-> "none", index |-> 0]
    ELSE IF rs[i].matcher[req.url] = "X" THEN [kind |-> "throw", index |-> i]
    ELSE IF rs[i].matcher[req.url] = "T" THEN [kind |-> "match", index |-> i]
    ELSE find(rs, req, i + 1)

(* router as it would be were the last accepting route taken. *)
routerLast(rs, calls, req) ==
    LET f == find(rs, req, 1)
        last == CHOOSE i \in DOMAIN rs :
                    /\ rs[i].matcher[req.url] = "T"
                    /\ \A j \in DOMAIN rs : rs[j].matcher[req.url] = "T" => j <= i
    IN  IF f.kind = "match"
        THEN [kind |-> "match", index |-> last,
              calls |-> push(calls, CallRecord(req, rs[last].identifier, FALSE))]
        ELSE [kind |-> f.kind, index |-> f.index, calls |-> calls]

router(rs, calls, req) ==
    LET f == find(rs, req, 1)
    IN  IF f.kind = "match"
        THEN [kind |-> "match", index |-> f.index,
              calls |-> push(calls, CallRecord(req, rs[f.index].identifier, FALSE))]
        ELSE [kind |-> f.kind, index |-> f.index, calls |-> calls]

(* ---- FetchMock.getNativeFetch ------------------------------------------- *)
(* getNativeFetch as it would be without its check: what it hands back is  *)
(* called whether or not a native fetch is there.                          *)
getNativeFetchUnchecked(cfg) == [ok |-> TRUE, func |-> NativeFetch]

getNativeFetch(cfg) ==
    IF cfg.realFetch THEN [ok |-> TRUE, func |-> NativeFetch]
    ELSE [ok |-> FALSE, func |-> <<>>]

(* ---- errors ------------------------------------------------------------- *)
NoError == [kind |-> "none", text |-> <<>>, route |-> 0]
(* NoFallbackError as it would be without the default of the method. *)
NoFallbackErrorRaw(req) ==
    [kind |-> "ConfigurationError",
     text |-> <<"fetch-mock: No fallback response defined for", req.method, "to", req.url>>,
     route |-> 0]

NoFallbackError(req) ==
    [kind |-> "ConfigurationError",
     text |-> <<"fetch-mock: No fallback response defined for",
                IF req.method = "" THEN "GET" ELSE req.method, "to", req.url>>,
     route |-> 0]
NoNativeFetchError ==
    [kind |-> "ConfigurationError",
     text |-> <<"fetch-mock: Falling back to network only available on gloabl fetch-mock, or by setting config.fetch on sandboxed fetch-mock">>,
     route |-> 0]
(* Whatever the matcher of route i threw, unmodified. *)
MatcherError(i) == [kind |-> "MatcherError", text |-> <<"thrown by a matcher">>, route |-> i]

(* ---- FetchMock.executeRouter -------------------------------------------- *)
NoRoute == [response |-> <<>>, responseIsFetch |-> FALSE, index |-> 0]
Returns(route, calls) ==
    [kind |-> "return", route |-> route, calls |-> calls, error |-> NoError]
Throws(error, calls) ==
    [kind |-> "throw", route |-> NoRoute, calls |-> calls, error |-> error]
FetchRoute(cfg, calls) ==
    IF getNativeFetch(cfg).ok
    THEN Returns([response |-> getNativeFetch(cfg).func, responseIsFetch |-> TRUE,
                  index |-> 0], calls)
    ELSE Throws(NoNativeFetchError, calls)

(* executeRouter as it would be were the routes consulted before the       *)
(* 'always' setting.                                                       *)
executeRouterRoutesFirst(cfg, rs, calls, req) ==
    LET match == router(rs, calls, req)
        unmatched == push(calls, CallRecord(req, "undefined", TRUE))
    IN  IF match.kind = "throw" THEN Throws(MatcherError(match.index), calls)
        ELSE IF match.kind = "match"
        THEN Returns([response |-> rs[match.index].response,
                      responseIsFetch |-> FALSE, index |-> match.index],
                     match.calls)
        ELSE IF cfg.fallbackToNetwork = "always" THEN FetchRoute(cfg, calls)
        ELSE IF cfg.fallbackResponse # <<>>
        THEN Returns([response |-> cfg.fallbackResponse,
                      responseIsFetch |-> FALSE, index |-> 0], unmatched)
        ELSE IF cfg.fallbackToNetwork = "false"
        THEN Throws(NoFallbackError(req), unmatched)
        ELSE FetchRoute(cfg, unmatched)

(* executeRouter as it would be were network fallback preferred to the     *)
(* fallback response.                                                      *)
executeRouterNetworkFirst(cfg, rs, calls, req) ==
    IF cfg.fallbackToNetwork = "always" THEN FetchRoute(cfg, calls)
    ELSE LET match == router(rs, calls, req)
             unmatched == push(calls, CallRecord(req, "undefined", TRUE))
         IN  IF match.kind = "throw" THEN Throws(MatcherError(match.index), calls)
             ELSE IF match.kind = "match"
             THEN Returns([response |-> rs[match.index].response,
                           responseIsFetch |-> FALSE, index |-> match.index],
                          match.calls)
             ELSE IF cfg.fallbackToNetwork = "true"
             THEN FetchRoute(cfg, unmatched)
             ELSE IF cfg.fallbackResponse # <<>>
             THEN Returns([response |-> cfg.fallbackResponse,
                           responseIsFetch |-> FALSE, index |-> 0], unmatched)
             ELSE Throws(NoFallbackError(req), unmatched)

(* executeRouter as it would be were the unmatched call recorded once the  *)
(* fallback is decided: a call that throws is not recorded.                *)
executeRouterRecordsLate(cfg, rs, calls, req) ==
    IF cfg.fallbackToNetwork = "always" THEN FetchRoute(cfg, calls)
    ELSE LET match == router(rs, calls, req)
             unmatched == push(calls, CallRecord(req, "undefined", TRUE))
         IN  IF match.kind = "throw" THEN Throws(MatcherError(match.index), calls)
             ELSE IF match.kind = "match"
             THEN Returns([response |-> rs[match.index].response,
                           responseIsFetch |-> FALSE, index |-> match.index],
                          match.calls)
             ELSE IF cfg.fallbackResponse # <<>>
             THEN Returns([response |-> cfg.fallbackResponse,
                           responseIsFetch |-> FALSE, index |-> 0], unmatched)
             ELSE IF cfg.fallbackToNetwork = "false"
             THEN Throws(NoFallbackError(req), calls)
             ELSE IF getNativeFetch(cfg).ok THEN FetchRoute(cfg, unmatched)
             ELSE FetchRoute(cfg, calls)

executeRouter(cfg, rs, calls, req) ==
    IF cfg.fallbackToNetwork = "always" THEN FetchRoute(cfg, calls)
    ELSE LET match == router(rs, calls, req)
             unmatched == push(calls, CallRecord(req, "undefined", TRUE))
         IN  IF match.kind = "throw" THEN Throws(MatcherError(match.index), calls)
             ELSE IF match.kind = "match"
             THEN Returns([response |-> rs[match.index].response,
                           responseIsFetch |-> FALSE, index |-> match.index],
                          match.calls)
             ELSE IF cfg.fallbackResponse # <<>>
             THEN Returns([response |-> cfg.fallbackResponse,
                           responseIsFetch |-> FALSE, index |-> 0], unmatched)
             ELSE IF cfg.fallbackToNetwork = "false"
             THEN Throws(NoFallbackError(req), unmatched)
             ELSE FetchRoute(cfg, unmatched)

(* ---- promises ----------------------------------------------------------- *)
Pending == [state |-> "pending", value |-> "none"]

(* The resolving functions of the promise made at line 77: the first call  *)
(* of either settles it, every later call does nothing.                    *)
(* rej as it would be were the promise settled again by a later call. *)
rejAgain(r, e) == [r EXCEPT !.outer = [state |-> "rejected", value |-> e]]

res(r, v) ==
    IF r.outer.state = "pending"
    THEN [r EXCEPT !.outer = [state |-> "fulfilled", value |-> v]]
    ELSE r
rej(r, e) ==
    IF r.outer.state = "pending"
    THEN [r EXCEPT !.outer = [state |-> "rejected", value |-> e]]
    ELSE r

(* done: the resolving function of the promise pushed to _holdingPromises  *)
(* at line 73: the first call resolves the promise, a later call does       *)
(* nothing.  doneCalls counts the calls, markerSettles the resolutions.    *)
done(r) ==
    [r EXCEPT !.marker = "resolved", !.doneCalls = @ + 1,
              !.markerSettles = IF r.marker = "pending" THEN @ + 1 ELSE @]

(* ---- the abort closure, lines 80-83 ------------------------------------- *)
(* abortRuns, genAtAbort and deliveredAtAbort record when it ran.           *)
Aborted(r, q) ==
    [q EXCEPT !.abortRuns = @ + 1, !.genAtAbort = r.gen.state,
              !.deliveredAtAbort = r.delivered]

(* abort as it would be without its call of done. *)
abortOnlyRej(r) == Aborted(r, rej(r, "AbortError"))

(* abort as it would be without its call of rej. *)
abortOnlyDone(r) == Aborted(r, done(r))

abort(r) == Aborted(r, done(rej(r, "AbortError")))

(* ---- resolve ------------------------------------------------------------ *)
(* One run of the loop of lines 33-58 from its top, up to the point where  *)
(* the function returns or suspends at the await of line 52.               *)
resolve(r) ==
    IF IsFunction(r.cur)
    THEN [r EXCEPT !.pc = "returned", !.cur = Tail(r.cur),
                   !.responderCalls = @ + 1,
                   !.calledWith = IF r.route.responseIsFetch
                                  THEN IF r.request THEN "request" ELSE "url,options"
                                  ELSE "url,options,request"]
    ELSE IF IsThenable(r.cur)
    THEN [r EXCEPT !.pc = "await"]
    ELSE [r EXCEPT !.pc = "returned"]

(* ---- FetchMock.generateResponse ----------------------------------------- *)
(* Lines 141-158, given the value the await of line 137 produced.          *)
(* Dispatch as it would be without the type check of line 141. *)
DispatchOnThrowsAlone(r, response) ==
    IF HasThrows(response)
    THEN [r EXCEPT !.pc = "settled", !.terminal = response,
                   !.gen = [state |-> "rejected", value |-> "throws"]]
    ELSE IF IsResponse(response)
    THEN [r EXCEPT !.pc = "settled", !.terminal = response,
                   !.gen = [state |-> "fulfilled", value |-> Head(response)]]
    ELSE [r EXCEPT !.pc = "settled", !.terminal = response,
                   !.builderCalls = @ + 1,
                   !.gen = [state |-> "fulfilled", value |-> "built"]]

Dispatch(r, response) ==
    IF HasThrows(response) /\ ~IsFunction(response)
    THEN [r EXCEPT !.pc = "settled", !.terminal = response,
                   !.gen = [state |-> "rejected", value |-> "throws"]]
    ELSE IF IsResponse(response)
    THEN [r EXCEPT !.pc = "settled", !.terminal = response,
                   !.gen = [state |-> "fulfilled", value |-> Head(response)]]
    ELSE [r EXCEPT !.pc = "settled", !.terminal = response,
                   !.builderCalls = @ + 1,
                   !.gen = [state |-> "fulfilled", value |-> "built"]]

(* The call of line 91: generateResponse runs up to its await of line 137. *)
generateResponse(r) == resolve([r EXCEPT !.generated = TRUE, !.cur = r.route.response])

(* ---- FetchMock.fetchHandler --------------------------------------------- *)
NewRequest(req, route) ==
    [url |-> req.url, method |-> req.method, signal |-> req.signal,
     request |-> req.request, route |-> route,
     marker |-> "pending", outer |-> Pending, gen |-> Pending,
     generated |-> FALSE, pc |-> "new", cur |-> <<>>, terminal |-> <<>>,
     delivered |-> FALSE, chained |-> FALSE,
     responderCalls |-> 0, calledWith |-> "none", builderCalls |-> 0,
     doneCalls |-> 0, markerSettles |-> 0, abortRuns |-> 0, alreadyAborted |-> FALSE,
     genAtAbort |-> "none", deliveredAtAbort |-> FALSE]

(* The executor of lines 77-94. *)
Executor(r, alreadyAborted) ==
    generateResponse(IF r.signal # NoSignal /\ alreadyAborted
                     THEN [abort(r) EXCEPT !.alreadyAborted = TRUE]
                     ELSE r)

(* fetchHandler as it would be were the marker pushed before the router is *)
(* asked: a call whose routing throws leaves its marker behind.            *)
fetchHandlerMarkerFirst(req) ==
    /\ Len(history) < MaxCalls
    /\ LET er == executeRouter(config, routes, _calls, req)
       IN  /\ _calls' = er.calls
           /\ history' = Append(history,
                  [req |-> req, kind |-> er.kind, error |-> er.error,
                   route |-> er.route, pushed |-> Len(er.calls) - Len(_calls),
                   index |-> IF er.kind = "return" THEN Len(reqs) + 1 ELSE 0])
           /\ _holdingPromises' = Append(_holdingPromises, Len(reqs) + 1)
           /\ IF er.kind = "throw"
              THEN UNCHANGED reqs
              ELSE reqs' = Append(reqs,
                          Executor(NewRequest(req, er.route), req.signal \in aborted))
    /\ UNCHANGED <<config, routes, aborted>>

fetchHandler(req) ==
    /\ Len(history) < MaxCalls
    /\ LET er == executeRouter(config, routes, _calls, req)
       IN  /\ _calls' = er.calls
           /\ history' = Append(history,
                  [req |-> req, kind |-> er.kind, error |-> er.error,
                   route |-> er.route, pushed |-> Len(er.calls) - Len(_calls),
                   index |-> IF er.kind = "return" THEN Len(reqs) + 1 ELSE 0])
           /\ IF er.kind = "throw"
              THEN UNCHANGED <<_holdingPromises, reqs>>
              ELSE /\ _holdingPromises' = Append(_holdingPromises, Len(reqs) + 1)
                   /\ reqs' = Append(reqs,
                          Executor(NewRequest(req, er.route), req.signal \in aborted))
    /\ UNCHANGED <<config, routes, aborted>>

(* ---- continuations run by the job queue --------------------------------- *)
(* Line 52: the awaited value settled; the loop goes on with what it       *)
(* settled with.                                                           *)
awaitResponse(i) ==
    /\ reqs[i].pc = "await"
    /\ reqs' = [reqs EXCEPT ![i] = resolve([reqs[i] EXCEPT !.cur = Tail(reqs[i].cur)])]
    /\ UNCHANGED <<config, routes, _calls, _holdingPromises, aborted, history>>

(* Line 137: the promise of an async function that returned a thenable     *)
(* follows it; once it holds a non-thenable, generateResponse goes on.     *)
awaitResolve(i) ==
    /\ reqs[i].pc = "returned"
    /\ reqs' = [reqs EXCEPT ![i] =
                   IF IsThenable(reqs[i].cur)
                   THEN [reqs[i] EXCEPT !.cur = Tail(reqs[i].cur)]
                   ELSE Dispatch(reqs[i], reqs[i].cur)]
    /\ UNCHANGED <<config, routes, _calls, _holdingPromises, aborted, history>>

(* Line 92: .then(res, rej) *)
thenResRej(i) ==
    /\ reqs[i].pc = "settled"
    /\ ~reqs[i].delivered
    /\ reqs' = [reqs EXCEPT ![i] =
                   [(IF reqs[i].gen.state = "fulfilled"
                     THEN res(reqs[i], reqs[i].gen.value)
                     ELSE rej(reqs[i], reqs[i].gen.value)) EXCEPT !.delivered = TRUE]]
    /\ UNCHANGED <<config, routes, _calls, _holdingPromises, aborted, history>>

(* thenDone as it would be were done chained to a fulfilled generation     *)
(* only.                                                                   *)
thenDoneFulfilledOnly(i) ==
    /\ reqs[i].delivered
    /\ ~reqs[i].chained
    /\ reqs[i].gen.state = "fulfilled"
    /\ reqs' = [reqs EXCEPT ![i] = [done(reqs[i]) EXCEPT !.chained = TRUE]]
    /\ UNCHANGED <<config, routes, _calls, _holdingPromises, aborted, history>>

(* thenDone as it would be were done chained to the generation itself      *)
(* and not to the promise of .then(res, rej).                              *)
thenDoneOfGeneration(i) ==
    /\ reqs[i].pc = "settled"
    /\ ~reqs[i].chained
    /\ reqs' = [reqs EXCEPT ![i] = [done(reqs[i]) EXCEPT !.chained = TRUE]]
    /\ UNCHANGED <<config, routes, _calls, _holdingPromises, aborted, history>>

(* Line 93: .then(done, done) *)
thenDone(i) ==
    /\ reqs[i].delivered
    /\ ~reqs[i].chained
    /\ reqs' = [reqs EXCEPT ![i] = [done(reqs[i]) EXCEPT !.chained = TRUE]]
    /\ UNCHANGED <<config, routes, _calls, _holdingPromises, aborted, history>>

(* abortEvent as it would be were the abort closure of every request in   *)
(* flight run, whatever its signal.                                        *)
abortEventOfAll(s) ==
    /\ s \notin aborted
    /\ aborted' = aborted \cup {s}
    /\ reqs' = [i \in DOMAIN reqs |-> abort(reqs[i])]
    /\ UNCHANGED <<config, routes, _calls, _holdingPromises, history>>

(* The 'abort' event of a signal: it is dispatched once, to the listeners  *)
(* line 88 registered on it.                                               *)
abortEvent(s) ==
    /\ s \notin aborted
    /\ aborted' = aborted \cup {s}
    /\ reqs' = [i \in DOMAIN reqs |->
                   IF reqs[i].signal = s THEN abort(reqs[i]) ELSE reqs[i]]
    /\ UNCHANGED <<config, routes, _calls, _holdingPromises, history>>

(* ---- specifications ----------------------------------------------------- *)
(* The pipeline has three parts whose inputs multiply: the routing         *)
(* decision (configuration x route list x request), the resolution of a    *)
(* descriptor (its shape) and the race of the asynchronous continuations   *)
(* of the requests in flight with the abort events.  Each specification    *)
(* below draws one of them in full and the others from a few cases, with   *)
(* the same actions.                                                       *)
Start ==
    /\ _calls = <<>>
    /\ _holdingPromises = <<>>
    /\ reqs = <<>>
    /\ aborted = {}
    /\ history = <<>>

Continue ==
    \/ \E i \in DOMAIN reqs : awaitResponse(i)
    \/ \E i \in DOMAIN reqs : awaitResolve(i)
    \/ \E i \in DOMAIN reqs : thenResRej(i)
    \/ \E i \in DOMAIN reqs : thenDone(i)

(* Spec: requests in flight together, with and without signals, racing     *)
(* with the abort events.                                                  *)
Init ==
    /\ config \in {c \in Configs : c.realFetch /\ c.fallbackResponse = <<>>}
    /\ routes \in {<<ra>>, <<ra, rany>>}
    /\ routes = <<ra, rany>> => config.fallbackToNetwork = "false"
    /\ Start

Next ==
    \/ \E req \in {r \in Requests : r.method = "" /\ ~r.request} : fetchHandler(req)
    \/ Continue
    \/ \E s \in Signals : abortEvent(s)

Spec == Init /\ [][Next]_vars

(* SpecFair: requests for a fulfilling and a rejecting route, with one      *)
(* signal or none, under the job queue's guarantee that a promise reaction *)
(* that has been queued is run.  Nothing is assumed of the deferred values *)
(* of a response, which may never settle, nor of the abort events.         *)
InitFair ==
    /\ config = [fallbackToNetwork |-> "false", fallbackResponse |-> <<>>,
                 realFetch |-> TRUE]
    /\ routes = <<ra, rany>>
    /\ Start

NextFair ==
    \/ \E req \in {r \in Requests : r.method = "" /\ ~r.request /\ r.signal # "s2"} :
           fetchHandler(req)
    \/ Continue
    \/ abortEvent("s1")

Fairness ==
    \A i \in 1..MaxCalls :
        /\ WF_vars(i \in DOMAIN reqs /\ thenResRej(i))
        /\ WF_vars(i \in DOMAIN reqs /\ thenDone(i))

SpecFair == InitFair /\ [][NextFair]_vars /\ Fairness

(* SpecRouter: every configuration and every route list, over calls that   *)
(* carry no signal; only the synchronous part of each call is followed.    *)
InitRouter ==
    /\ config \in Configs
    /\ routes \in RouteLists(MaxRoutes)
    /\ Start

NextRouter == \E req \in {r \in Requests : r.signal = NoSignal} : fetchHandler(req)

SpecRouter == InitRouter /\ [][NextRouter]_vars

(* SpecResolve: one route that accepts every request, its response drawn   *)
(* from every descriptor of at most MaxDepth wrappers.                     *)
InitResolve ==
    /\ config = [fallbackToNetwork |-> "false", fallbackResponse |-> <<>>,
                 realFetch |-> TRUE]
    /\ \E d \in Descriptors(MaxDepth) :
           routes = <<[identifier |-> "r", matcher |-> [u \in Urls |-> "T"],
                       response |-> d]>>
    /\ Start

NextResolve ==
    \/ \E req \in {r \in Requests : r.url = "/a" /\ r.method = "" /\ r.signal = NoSignal} :
           fetchHandler(req)
    \/ Continue

SpecResolve == InitResolve /\ [][NextResolve]_vars

(* ---- properties ---------------------------------------------------------- *)
LastCall == history[Len(history)]
Accepting(url) == {i \in DOMAIN routes : routes[i].matcher[url] = "T"}
Throwing(url) == {i \in DOMAIN routes : routes[i].matcher[url] = "X"}
Lowest(S) == CHOOSE i \in S : \A j \in S : i <= j
(* The scan reaches an accepting route: none before it throws. *)
ScanAccepts(url) ==
    /\ Accepting(url) # {}
    /\ \A j \in Throwing(url) : j > Lowest(Accepting(url))
(* The scan reaches a throwing matcher: none before it accepts. *)
ScanThrows(url) ==
    /\ Throwing(url) # {}
    /\ \A j \in Accepting(url) : j > Lowest(Throwing(url))

(* C1: when fallbackToNetwork is not 'always' and the scan reaches a route *)
(* whose matcher accepts the request, the call returns the accepting route *)
(* of lowest registration index, never a later one, and the CallRecord     *)
(* appended for the call carries that route's identifier.                  *)
C1_FirstMatchWins ==
    (history # <<>> /\ config.fallbackToNetwork # "always"
        /\ ScanAccepts(LastCall.req.url)) =>
    LET first == Lowest(Accepting(LastCall.req.url))
    IN  /\ LastCall.kind = "return"
        /\ LastCall.route.index = first
        /\ LastCall.route.response = routes[first].response
        /\ ~LastCall.route.responseIsFetch
        /\ LastCall.pushed = 1
        /\ _calls[Len(_calls)] =
               CallRecord(LastCall.req, routes[first].identifier, FALSE)

(* C1 witness: several routes accept the request, the first of them is not *)
(* the first route of the list, and it is the one returned.                *)
C1_Witness ==
    /\ history # <<>>
    /\ config.fallbackToNetwork # "always"
    /\ Cardinality(Accepting(LastCall.req.url)) >= 2
    /\ Lowest(Accepting(LastCall.req.url)) > 1
    /\ LastCall.kind = "return"
    /\ LastCall.route.index = Lowest(Accepting(LastCall.req.url))

(* The calls of h that append a record: those that reach the unmatched or  *)
(* matched push, which a call under 'always' and a call whose scan throws  *)
(* do not.                                                                  *)
Records(h) == config.fallbackToNetwork # "always" /\ ~ScanThrows(h.req.url)
RECURSIVE Logged(_)
Logged(hist) ==
    IF hist = <<>> THEN <<>>
    ELSE LET h == hist[Len(hist)]
             rest == Logged(SubSeq(hist, 1, Len(hist) - 1))
         IN  IF Records(h) THEN Append(rest, h.req) ELSE rest
RequestOf(rec) ==
    [url |-> rec.url, method |-> rec.method, signal |-> NoSignal,
     request |-> rec.request]

C7_NoFallbackThrows ==
    (history # <<>> /\ config.fallbackToNetwork = "false"
        /\ config.fallbackResponse = <<>>
        /\ \A i \in DOMAIN routes : routes[i].matcher[LastCall.req.url] = "F") =>
    /\ LastCall.kind = "throw"
    /\ LastCall.index = 0
    /\ Len(reqs) = Cardinality({k \in DOMAIN history : history[k].kind = "return"})
    /\ Len(_holdingPromises) = Len(reqs)
    /\ LastCall.error.kind = "ConfigurationError"
    /\ LastCall.error.text =
           <<"fetch-mock: No fallback response defined for",
             IF LastCall.req.method = "" THEN "GET" ELSE LastCall.req.method,
             "to", LastCall.req.url>>

(* C7 witness: an unmatched call without a method has thrown, naming GET.  *)
C7_Witness ==
    /\ history # <<>>
    /\ routes # <<>>
    /\ LastCall.req.method = ""
    /\ LastCall.kind = "throw"
    /\ LastCall.error.text[2] = "GET"
    /\ LastCall.error.text[4] = LastCall.req.url

(* C10 as stated: nothing but a ConfigurationError is thrown synchronously *)
(* from fetchHandler; an error thrown by a matcher is not.                 *)
C10_Original ==
    \A k \in DOMAIN history :
        history[k].kind = "throw" => history[k].error.kind = "ConfigurationError"

(* C10 amended: an error thrown by a matcher during routing surfaces to    *)
(* the caller of fetchHandler as a synchronous throw of that error: no     *)
(* promise is returned and no CallRecord is appended.  A synchronous throw *)
(* from fetchHandler is a matcher's error or a ConfigurationError.         *)
C10_MatcherErrorThrownSynchronously ==
    /\ \A k \in DOMAIN history :
           (config.fallbackToNetwork # "always" /\ ScanThrows(history[k].req.url)) =>
               /\ history[k].kind = "throw"
               /\ history[k].index = 0
               /\ history[k].pushed = 0
               /\ history[k].error =
                      MatcherError(Lowest(Throwing(history[k].req.url)))
    /\ \A k \in DOMAIN history :
           history[k].kind = "throw" =>
               history[k].error.kind \in {"MatcherError", "ConfigurationError"}
    /\ Len(reqs) = Cardinality({k \in DOMAIN history : history[k].kind = "return"})

(* C10 witness: a matcher threw after an earlier route refused the         *)
(* request, and the call threw its error.                                   *)
C10_Witness ==
    /\ history # <<>>
    /\ LastCall.kind = "throw"
    /\ LastCall.error.kind = "MatcherError"
    /\ LastCall.error.route > 1

(* C3 as stated: a call whose signal is already aborted rejects with an    *)
(* AbortError and never invokes response generation.                       *)
C3_Original ==
    \A i \in DOMAIN reqs :
        reqs[i].alreadyAborted =>
            /\ reqs[i].outer = [state |-> "rejected", value |-> "AbortError"]
            /\ ~reqs[i].generated

(* C4: the PendingMarker of a request is resolved exactly once: as soon as *)
(* the abort listener has run or the then(done, done) reaction has run it  *)
(* is resolved, it is not resolved before either, and when both have run   *)
(* it has still been resolved once.                                        *)
C4_MarkerResolvedOnce ==
    \A i \in DOMAIN reqs :
        /\ (reqs[i].abortRuns > 0 \/ reqs[i].chained) <=> reqs[i].marker = "resolved"
        /\ reqs[i].markerSettles = IF reqs[i].marker = "resolved" THEN 1 ELSE 0
        /\ _holdingPromises[i] = i

(* C4 witness: the abort listener of a request ran while its generation    *)
(* was pending, the generation path called done afterwards, and the marker *)
(* was resolved once.                                                      *)
C4_Witness ==
    \E i \in DOMAIN reqs :
        /\ reqs[i].signal # NoSignal
        /\ reqs[i].abortRuns = 1
        /\ reqs[i].chained
        /\ reqs[i].doneCalls = 2
        /\ reqs[i].markerSettles = 1

Outcome(r) == [state |-> r.gen.state, value |-> r.gen.value]

(* C5 as stated: an abort that fires after response generation has settled *)
(* leaves the generation outcome as the caller-visible result.             *)
C5_Original ==
    \A i \in DOMAIN reqs :
        (reqs[i].abortRuns > 0 /\ reqs[i].genAtAbort \in {"fulfilled", "rejected"}) =>
            reqs[i].outer = Outcome(reqs[i])

(* C5 amended: an abort that fires after the generation outcome has been   *)
(* delivered to the outer result (the then(res, rej) reaction has run)     *)
(* leaves that outcome as the caller-visible result; an abort that fires   *)
(* after generation settled but before that reaction rejects with          *)
(* AbortError; and the outer result, once settled, never changes.          *)
C5_DeliveredOutcomeKept ==
    /\ [](\A i \in DOMAIN reqs :
            /\ (reqs[i].abortRuns > 0 /\ reqs[i].deliveredAtAbort) =>
                   reqs[i].outer = Outcome(reqs[i])
            /\ (reqs[i].abortRuns > 0 /\ ~reqs[i].deliveredAtAbort) =>
                   reqs[i].outer = [state |-> "rejected", value |-> "AbortError"])
    /\ [][\A i \in DOMAIN reqs :
            reqs[i].outer.state # "pending" => reqs'[i].outer = reqs[i].outer]_vars

(* C5 witness: the abort listener ran after a fulfilled outcome had been   *)
(* delivered, and the result is still that outcome.                        *)
C5_Witness ==
    \E i \in DOMAIN reqs :
        /\ reqs[i].abortRuns = 1
        /\ reqs[i].deliveredAtAbort
        /\ reqs[i].genAtAbort = "fulfilled"
        /\ reqs[i].outer.state = "fulfilled"

(* C6: an abort that fires while response generation is pending rejects    *)
(* the caller-visible result with AbortError, and whatever generation      *)
(* produces later never replaces that rejection.                           *)
C6_AbortWinsOverPendingGeneration ==
    \A i \in DOMAIN reqs :
        (reqs[i].abortRuns > 0 /\ reqs[i].genAtAbort = "pending") =>
            reqs[i].outer = [state |-> "rejected", value |-> "AbortError"]

(* C6 witness: the abort event fired during a generation that was later    *)
(* fulfilled and delivered, and the result is the AbortError.              *)
C6_Witness ==
    \E i \in DOMAIN reqs :
        /\ ~reqs[i].alreadyAborted
        /\ reqs[i].abortRuns = 1
        /\ reqs[i].genAtAbort = "pending"
        /\ reqs[i].gen.state = "fulfilled"
        /\ reqs[i].delivered
        /\ reqs[i].outer.value = "AbortError"

(* The literal at the bottom of a descriptor. *)
Innermost(d) == <<d[Len(d)]>>
Wrappers(d) == {d[k] : k \in 1..(Len(d) - 1)}

(* C8 as stated: a function returning a function ... returning a literal   *)
(* resolves to that literal, at every depth; resolve never ends with a     *)
(* callable.                                                               *)
C8_Original ==
    \A i \in DOMAIN reqs :
        (reqs[i].pc = "settled" /\ Wrappers(reqs[i].route.response) = {"F"}) =>
            /\ reqs[i].terminal = Innermost(reqs[i].route.response)
            /\ ~IsFunction(reqs[i].terminal)

(* C9 as stated: a chain mixing deferred values and functions resolves to  *)
(* its innermost literal, and the value handed to the dispatch of          *)
(* generateResponse is neither callable nor deferred.                      *)
C9_Original ==
    \A i \in DOMAIN reqs :
        (reqs[i].pc = "settled" /\ Wrappers(reqs[i].route.response) = {"F", "D"}) =>
            /\ reqs[i].terminal = Innermost(reqs[i].route.response)
            /\ ~IsFunction(reqs[i].terminal)
            /\ ~IsThenable(reqs[i].terminal)

Returned == {k \in DOMAIN history : history[k].kind = "return"}
Thrown == {k \in DOMAIN history : history[k].kind = "throw"}

(* C11 as stated: every invocation of fetchHandler, one whose routing step *)
(* throws included, has added exactly one PendingMarker to the holding     *)
(* list.                                                                   *)
C11_Original == Len(_holdingPromises) = Len(history)

(* C11 amended: fetchHandler asks the router first and registers the       *)
(* marker afterwards, before any asynchronous work: every invocation that  *)
(* returns a promise has added exactly one marker, its own, before         *)
(* response generation is started, and an invocation whose routing step    *)
(* throws has added none.                                                  *)
C11_MarkerPerReturnedCall ==
    /\ Len(_holdingPromises) = Cardinality(Returned)
    /\ Len(reqs) = Cardinality(Returned)
    /\ \A k \in Returned :
           /\ history[k].index = Cardinality({j \in Returned : j <= k})
           /\ _holdingPromises[history[k].index] = history[k].index
           /\ reqs[history[k].index].generated
    /\ \A k \in Thrown : history[k].index = 0

(* C11 witness: a call whose routing threw, followed by a call that        *)
(* returned a promise: one marker is held, that of the second call.        *)
C11_Witness ==
    /\ Len(history) = 2
    /\ history[1].kind = "throw"
    /\ history[2].kind = "return"
    /\ _holdingPromises = <<1>>
    /\ reqs[1].url = history[2].req.url
    /\ reqs[1].marker = "pending"

(* C12: for a request without an abort, once response generation has       *)
(* settled, fulfilled or rejected, the outer result settles with that same *)
(* outcome and the PendingMarker is resolved afterwards, whichever the     *)
(* outcome.                                                                *)
C12_OutcomeDeliveredThenMarkerResolved ==
    /\ [](\A i \in DOMAIN reqs :
            /\ (reqs[i].delivered /\ reqs[i].abortRuns = 0) =>
                   reqs[i].outer = Outcome(reqs[i])
            /\ reqs[i].chained => reqs[i].delivered
            /\ (reqs[i].abortRuns = 0 /\ reqs[i].marker = "resolved") =>
                   reqs[i].outer.state # "pending")
    /\ \A i \in 1..MaxCalls :
           (i \in DOMAIN reqs /\ reqs[i].pc = "settled") ~>
               (/\ i \in DOMAIN reqs
                /\ reqs[i].marker = "resolved"
                /\ reqs[i].delivered
                /\ reqs[i].abortRuns = 0 => reqs[i].outer = Outcome(reqs[i]))

(* C12 witness: a generation was rejected, no abort ran, the outer result  *)
(* is that rejection and the marker is resolved.                           *)
C12_Witness ==
    \E i \in DOMAIN reqs :
        /\ reqs[i].gen.state = "rejected"
        /\ reqs[i].abortRuns = 0
        /\ reqs[i].outer = [state |-> "rejected", value |-> "throws"]
        /\ reqs[i].marker = "resolved"

(* No route accepts the request and no matcher throws. *)
Unmatched(url) == \A i \in DOMAIN routes : routes[i].matcher[url] = "F"
FetchResult == [response |-> NativeFetch, responseIsFetch |-> TRUE, index |-> 0]

(* C13: when fallbackToNetwork is 'always', every call is routed to the    *)
(* native fetch with responseIsFetch true, whatever the routes and the     *)
(* fallback response: no matcher decides it (a matcher that would throw    *)
(* does not), and no record is pushed.  Where no native fetch is           *)
(* reachable the call fails for that reason and no other.                  *)
C13_AlwaysGoesToNetwork ==
    (history # <<>> /\ config.fallbackToNetwork = "always") =>
    /\ LastCall.pushed = 0
    /\ _calls = <<>>
    /\ IF config.realFetch
       THEN /\ LastCall.kind = "return"
            /\ LastCall.route = FetchResult
            /\ reqs[LastCall.index].route.responseIsFetch
       ELSE /\ LastCall.kind = "throw"
            /\ LastCall.error = NoNativeFetchError

(* C13 witness: under 'always', with a fallback response configured, a     *)
(* request that a route would accept after a matcher that would throw is   *)
(* routed to the native fetch.                                             *)
C13_Witness ==
    /\ history # <<>>
    /\ config.fallbackToNetwork = "always"
    /\ config.fallbackResponse # <<>>
    /\ ScanThrows(LastCall.req.url)
    /\ Accepting(LastCall.req.url) # {}
    /\ LastCall.kind = "return"
    /\ LastCall.route.responseIsFetch

(* C14: for an unmatched request a configured fallback response is         *)
(* returned with responseIsFetch false, the native fetch not being asked   *)
(* for, even when fallbackToNetwork is enabled; the native fetch is        *)
(* returned with responseIsFetch true only when there is no fallback       *)
(* response and fallbackToNetwork is enabled; otherwise the call fails.    *)
C14_FallbackOrder ==
    (history # <<>> /\ config.fallbackToNetwork # "always"
        /\ Unmatched(LastCall.req.url)) =>
    IF config.fallbackResponse # <<>>
    THEN /\ LastCall.kind = "return"
         /\ LastCall.route = [response |-> config.fallbackResponse,
                              responseIsFetch |-> FALSE, index |-> 0]
    ELSE IF config.fallbackToNetwork = "true" /\ config.realFetch
    THEN /\ LastCall.kind = "return"
         /\ LastCall.route = FetchResult
    ELSE /\ LastCall.kind = "throw"
         /\ LastCall.error.kind = "ConfigurationError"
         /\ (LastCall.error = NoNativeFetchError) <=> config.fallbackToNetwork = "true"

(* C14 witness: network fallback is enabled but no native fetch is         *)
(* reachable, and the configured fallback response is returned.            *)
C14_Witness ==
    /\ history # <<>>
    /\ routes # <<>>
    /\ config.fallbackToNetwork = "true"
    /\ ~config.realFetch
    /\ config.fallbackResponse # <<>>
    /\ Unmatched(LastCall.req.url)
    /\ LastCall.kind = "return"
    /\ ~LastCall.route.responseIsFetch

(* C15: for an unmatched request a CallRecord flagged isUnmatched is       *)
(* appended in every outcome: a fallback response, network fallback, a     *)
(* ConfigurationError, or the failure to reach a native fetch.             *)
C15_UnmatchedAlwaysRecorded ==
    (history # <<>> /\ config.fallbackToNetwork # "always"
        /\ Unmatched(LastCall.req.url)) =>
    /\ LastCall.pushed = 1
    /\ _calls[Len(_calls)] = CallRecord(LastCall.req, "undefined", TRUE)

(* C15 witness: an unmatched call failed for want of a native fetch and    *)
(* its record is the last of the log.                                      *)
C15_Witness ==
    /\ history # <<>>
    /\ routes # <<>>
    /\ LastCall.kind = "throw"
    /\ LastCall.error = NoNativeFetchError
    /\ _calls # <<>>
    /\ _calls[Len(_calls)].isUnmatched
    /\ _calls[Len(_calls)].url = LastCall.req.url

(* Network fallback is what the configuration asks for the request. *)
NetworkRequired(url) ==
    \/ config.fallbackToNetwork = "always"
    \/ /\ config.fallbackToNetwork = "true"
       /\ config.fallbackResponse = <<>>
       /\ Unmatched(url)

(* C18: when network fallback is required and no native fetch function is  *)
(* reachable, the call throws synchronously and has added no entry to      *)
(* _holdingPromises: the markers are those of the calls that returned.     *)
C18_NoNativeFetchThrowsWithoutMarker ==
    (history # <<>> /\ NetworkRequired(LastCall.req.url) /\ ~config.realFetch) =>
    /\ LastCall.kind = "throw"
    /\ LastCall.error = NoNativeFetchError
    /\ LastCall.index = 0
    /\ Len(_holdingPromises) = Cardinality(Returned)
    /\ Len(reqs) = Cardinality(Returned)

(* C18 witness: under 'always' with no native fetch reachable, a request   *)
(* that a route would accept has thrown twice and no marker exists.        *)
C18_Witness ==
    /\ Len(history) = 2
    /\ config.fallbackToNetwork = "always"
    /\ ~config.realFetch
    /\ Accepting(LastCall.req.url) # {}
    /\ LastCall.kind = "throw"
    /\ LastCall.error = NoNativeFetchError
    /\ _holdingPromises = <<>>

(* C19: whenever a marker of _holdingPromises is resolved, the promise     *)
(* handed to the caller of that request is settled already.                *)
C19_ResolvedMarkerMeansSettledResult ==
    \A i \in DOMAIN reqs :
        reqs[i].marker = "resolved" => reqs[i].outer.state # "pending"

(* C19 witness: one marker was resolved by the chain of line 93 and        *)
(* another by abort, both results being settled, the second while its      *)
(* generation is still pending.                                            *)
C19_Witness ==
    \E i, j \in DOMAIN reqs :
        /\ reqs[i].marker = "resolved"
        /\ reqs[i].chained
        /\ reqs[i].abortRuns = 0
        /\ reqs[i].outer.state = "fulfilled"
        /\ reqs[j].marker = "resolved"
        /\ reqs[j].abortRuns = 1
        /\ reqs[j].gen.state = "pending"
        /\ reqs[j].outer.state = "rejected"

(* The requests of the calls that pushed a record, in invocation order. *)
Recorded == SelectSeq(history, LAMBDA h : h.pushed = 1)

(* C16: with several requests in flight the call log lists the recorded    *)
(* calls in the order fetchHandler was invoked, whatever the order in      *)
(* which they settle or are aborted; the log only grows at its end, and a  *)
(* step that is not an invocation (a continuation, a settlement, an abort  *)
(* event) leaves it unchanged.                                             *)
C16_LogInInvocationOrder ==
    /\ [](/\ Len(_calls) = Len(Recorded)
          /\ \A k \in DOMAIN _calls : RequestOf(_calls[k]) =
                                      [Recorded[k].req EXCEPT !.signal = NoSignal])
    /\ [][/\ Len(_calls') >= Len(_calls)
          /\ SubSeq(_calls', 1, Len(_calls)) = _calls
          /\ Len(history') = Len(history) => _calls' = _calls]_vars

(* C16 witness: the second request invoked has settled and resolved its    *)
(* marker while the first, invoked for another url, was aborted with its   *)
(* generation pending; the log has the first one first.                    *)
C16_Witness ==
    /\ Len(reqs) = 2
    /\ Len(_calls) = 2
    /\ _calls[1].url = reqs[1].url
    /\ _calls[2].url = reqs[2].url
    /\ reqs[1].url # reqs[2].url
    /\ reqs[2].chained
    /\ reqs[1].abortRuns = 1
    /\ reqs[1].gen.state = "pending"

(* C20: an abort event of one signal rejects with AbortError, and resolves *)
(* the marker of, the requests registered on that signal only (a result    *)
(* already settled stays as it is); every request with another signal, or  *)
(* with none, is left exactly as it was, and an invocation changes no      *)
(* request already in flight.  A request whose abort closure never ran     *)
(* delivers its own generation outcome.                                    *)
C20_AbortIsPerRequest ==
    /\ [][/\ \A s \in aborted' \ aborted : \A i \in DOMAIN reqs :
                IF reqs[i].signal = s
                THEN /\ reqs'[i].marker = "resolved"
                     /\ reqs'[i].outer = IF reqs[i].outer.state = "pending"
                                         THEN [state |-> "rejected", value |-> "AbortError"]
                                         ELSE reqs[i].outer
                     /\ reqs'[i].abortRuns = reqs[i].abortRuns + 1
                ELSE reqs'[i] = reqs[i]
          /\ Len(reqs') > Len(reqs) => \A i \in DOMAIN reqs : reqs'[i] = reqs[i]]_vars
    /\ [](\A i \in DOMAIN reqs :
             /\ (reqs[i].abortRuns = 0 /\ reqs[i].delivered) => reqs[i].outer = Outcome(reqs[i])
             /\ (reqs[i].abortRuns = 0 /\ reqs[i].marker = "resolved") => reqs[i].chained
             /\ reqs[i].abortRuns > 0 => reqs[i].signal \in aborted)

(* C20 witness: two requests with different signals were in flight; the    *)
(* first was aborted while pending and is rejected with AbortError, its    *)
(* marker resolved; the second, invoked before that abort, was not         *)
(* aborted and went on to deliver its own outcome.                         *)
C20_Witness ==
    /\ Len(reqs) = 2
    /\ reqs[1].signal \in Signals
    /\ reqs[2].signal \in Signals
    /\ reqs[1].signal # reqs[2].signal
    /\ reqs[1].abortRuns = 1
    /\ ~reqs[1].alreadyAborted
    /\ reqs[1].genAtAbort = "pending"
    /\ reqs[1].outer = [state |-> "rejected", value |-> "AbortError"]
    /\ reqs[1].marker = "resolved"
    /\ reqs[2].abortRuns = 0
    /\ reqs[2].signal \notin aborted
    /\ reqs[2].chained
    /\ reqs[2].outer = Outcome(reqs[2])
    /\ reqs[2].outer.state = "fulfilled"

(* C17: generateResponse decides on the value resolve produced in this     *)
(* order: a non-callable value with a truthy throws is the rejection, and  *)
(* the builder is not run (also when the value is a Response); otherwise   *)
(* a Response is the result, unchanged, and the builder is not run;        *)
(* otherwise the builder is run exactly once and its result is the         *)
(* result.  A callable carrying throws is never taken for an error marker. *)
C17_DispatchPriority ==
    \A i \in DOMAIN reqs :
        /\ reqs[i].builderCalls <= 1
        /\ reqs[i].pc # "settled" => (reqs[i].builderCalls = 0 /\ reqs[i].gen = Pending)
        /\ reqs[i].pc = "settled" =>
              LET t == reqs[i].terminal
              IN  /\ IF Head(t) \in {"throws", "throwsResponse"}
                     THEN /\ reqs[i].gen = [state |-> "rejected", value |-> "throws"]
                          /\ reqs[i].builderCalls = 0
                     ELSE IF Head(t) = "Response"
                     THEN /\ reqs[i].gen = [state |-> "fulfilled", value |-> "Response"]
                          /\ reqs[i].builderCalls = 0
                     ELSE /\ reqs[i].gen = [state |-> "fulfilled", value |-> "built"]
                          /\ reqs[i].builderCalls = 1
                  /\ Head(t) \in {"F", "S"} => reqs[i].gen.state = "fulfilled"
                  /\ reqs[i].delivered => reqs[i].outer = reqs[i].gen

(* C17 witness: a function carrying a throws property reached the          *)
(* dispatch of generateResponse, was handed to the builder, and the        *)
(* generation is fulfilled.                                                *)
C17_Witness ==
    \E i \in DOMAIN reqs :
        /\ reqs[i].pc = "settled"
        /\ Head(reqs[i].terminal) = "S"
        /\ reqs[i].builderCalls = 1
        /\ reqs[i].gen = [state |-> "fulfilled", value |-> "built"]

====
